---- MODULE Spec2Model ----
(***************************************************************************)
(* Model of "Deep Learning/main_ck_plus.py": the Ensemble class, the       *)
(* evaluate function and the staged training loop of main.                 *)
(*                                                                         *)
(* A component's state_dict is abstracted to two stamps: w (the learnable  *)
(* weights, changed by optimizer.step in groups with lr # 0) and bn (the   *)
(* BatchNorm running statistics, changed by every forward pass of a module *)
(* whose training flag is set).  Stamps come from a counter, so two        *)
(* state_dicts are equal exactly when they are the same parameters.        *)
(* Learning rates are integers in units of 0.1 / BaseLR, which makes the   *)
(* halving of StepLR exact.  Accuracies are correct-counts: every accuracy *)
(* of a fold is the count divided by the same len(val_data).               *)
(***************************************************************************)
EXTENDS Integers, Sequences, FiniteSets, TLC

\* ---- bounds (the script's values scaled down) ----
NumFolds == 2
num_branches_trained_network == 3
validation_interval == 2
LaterBudget == 3
StepSize == 2
NumBatches == 2
NVal == 2
NumClasses == 3

FirstBudget == 2 * LaterBudget

RECURSIVE Pow2(_)
Pow2(n) == IF n <= 0 THEN 1 ELSE 2 * Pow2(n - 1)

BaseLR == Pow2(FirstBudget \div StepSize)

Classes == 1..NumClasses

RECURSIVE SeqMax(_)
SeqMax(s) == IF Len(s) = 0 THEN 0
             ELSE LET m == SeqMax(Tail(s)) IN IF Head(s) >= m THEN Head(s) ELSE m

\* ---- nn.Module components and the Ensemble class ----
Component(stamp) == [w |-> stamp, bn |-> 0, training |-> TRUE]

state_dict(c) == [w |-> c.w, bn |-> c.bn]

load_state_dict(c, sd) == [c EXCEPT !.w = sd.w, !.bn = sd.bn]

Ensemble(stamp) == [training |-> TRUE, base |-> Component(stamp), branches |-> << >>]

get_ensemble_size(n) == Len(n.branches)

add_branch_twice(n, stamp) ==
    [n EXCEPT !.branches = Append(Append(@, Component(stamp)), Component(stamp))]

add_branch(n, stamp) == [n EXCEPT !.branches = Append(@, Component(stamp))]

to_state_dict(n) ==
    << state_dict(n.base) >> \o
    [i \in 1..get_ensemble_size(n) |-> state_dict(n.branches[i])]

\* reload: the base is loaded from entry 0, then branch i from entry i + 1;
\* indexing past the end of the list raises IndexError after the earlier
\* loads have already happened.  Entries beyond size + 1 are never read.
RECURSIVE reload_loop(_, _, _)
reload_loop(n, cfg, i) ==
    IF i > get_ensemble_size(n) THEN [net |-> n, error |-> FALSE]
    ELSE IF i + 1 > Len(cfg) THEN [net |-> n, error |-> TRUE]
    ELSE reload_loop([n EXCEPT !.branches[i] = load_state_dict(@, cfg[i + 1])], cfg, i + 1)

RECURSIVE reload_loop_shifted(_, _, _)
reload_loop_shifted(n, cfg, i) ==
    IF i > get_ensemble_size(n) THEN [net |-> n, error |-> FALSE]
    ELSE IF i > Len(cfg) THEN [net |-> n, error |-> TRUE]
    ELSE reload_loop_shifted([n EXCEPT !.branches[i] = load_state_dict(@, cfg[i])], cfg, i + 1)

reload_off_by_one(n, cfg) ==
    IF Len(cfg) = 0 THEN [net |-> n, error |-> TRUE]
    ELSE reload_loop_shifted([n EXCEPT !.base = load_state_dict(@, cfg[1])], cfg, 1)

reload_skip_base(n, cfg) ==
    IF Len(cfg) = 0 THEN [net |-> n, error |-> TRUE]
    ELSE reload_loop(n, cfg, 1)

reload(n, cfg) ==
    IF Len(cfg) = 0 THEN [net |-> n, error |-> TRUE]
    ELSE reload_loop([n EXCEPT !.base = load_state_dict(@, cfg[1])], cfg, 1)

\* nn.Module.train(mode) / eval(): sets the flag of the module and of its
\* registered children.  self.base is registered; self.branches is a plain
\* Python list, so the branches are not children and keep their flag.
set_mode(n, flag) == [n EXCEPT !.training = flag, !.base.training = flag]

\* A forward pass updates the BatchNorm statistics of every component whose
\* training flag is set.
Forward(n, stamp) ==
    [n EXCEPT !.base = IF @.training THEN [@ EXCEPT !.bn = stamp] ELSE @,
              !.branches = [i \in 1..Len(@) |->
                              IF @[i].training THEN [@[i] EXCEPT !.bn = stamp] ELSE @[i]]]

\* ---- optimizer (SGD parameter groups) and StepLR ----
\* A group is [comp, lr]; comp = 0 is the extractor, comp = i is branch i.
GroupLR(opt, c) == LET g == CHOOSE j \in 1..Len(opt) : opt[j].comp = c IN opt[g].lr

HasLR(opt, c) == \E j \in 1..Len(opt) : opt[j].comp = c /\ opt[j].lr # 0

InitOptimizer(n) ==
    << [comp |-> 0, lr |-> BaseLR],
       [comp |-> get_ensemble_size(n), lr |-> BaseLR] >>

GrowOptimizerBaseTrainable(n) ==
    << [comp |-> 0, lr |-> BaseLR],
       [comp |-> get_ensemble_size(n), lr |-> BaseLR] >> \o
    [b \in 1..(get_ensemble_size(n) - 1) |-> [comp |-> b, lr |-> 0]]

GrowOptimizer(n) ==
    << [comp |-> 0, lr |-> 0],
       [comp |-> get_ensemble_size(n), lr |-> BaseLR] >> \o
    [b \in 1..(get_ensemble_size(n) - 1) |-> [comp |-> b, lr |-> 0]]

StepLR_lrs(sch) ==
    [j \in 1..Len(sch.base_lrs) |-> sch.base_lrs[j] \div Pow2(sch.last_epoch \div StepSize)]

ApplyLRs(opt, lrs) == [j \in 1..Len(opt) |-> [opt[j] EXCEPT !.lr = lrs[j]]]

StepLR(opt) == [last_epoch |-> 0, base_lrs |-> [j \in 1..Len(opt) |-> opt[j].lr]]

scheduler_step(sch) == [sch EXCEPT !.last_epoch = @ + 1]

\* optimizer.step(): p <- p - lr * (momentum buffer); only groups with a
\* non-zero learning rate move their weights.
optimizer_step(n, opt, stamp) ==
    [n EXCEPT !.base = IF HasLR(opt, 0) THEN [@ EXCEPT !.w = stamp] ELSE @,
              !.branches = [i \in 1..Len(@) |->
                              IF HasLR(opt, i) THEN [@[i] EXCEPT !.w = stamp] ELSE @[i]]]

\* ---- evaluate ----
\* overall_preds row of one sample: one vote per active branch.
AddVote(row, pred) == [row EXCEPT ![pred] = @ + 1]

RECURSIVE AddVotes(_, _, _)
AddVotes(row, preds, v) ==
    IF v > Len(preds) THEN row
    ELSE AddVotes(AddVote(row, preds[v]), preds, v + 1)

VoteRow(preds) == AddVotes([c \in Classes |-> 0], preds, 1)

\* torch.max(row, 1)[1]: index of the first maximal entry.
torch_max_last(row) ==
    CHOOSE c \in Classes : (\A d \in Classes : row[d] <= row[c]) /\
                           (\A d \in Classes : row[d] = row[c] => d <= c)

torch_max_min(row) ==
    CHOOSE c \in Classes : (\A d \in Classes : row[d] >= row[c]) /\
                           (\A d \in Classes : row[d] = row[c] => c <= d)

torch_max(row) ==
    CHOOSE c \in Classes : (\A d \in Classes : row[d] <= row[c]) /\
                           (\A d \in Classes : row[d] = row[c] => c <= d)

\* One sample of the loop body: per active branch the correct-count, then
\* the ensemble correct-count in the last entry.
EvalRow(corrects, label, preds) ==
    [j \in 1..Len(corrects) |->
        IF j <= Len(preds)
        THEN corrects[j] + (IF preds[j] = label THEN 1 ELSE 0)
        ELSE IF j = Len(corrects)
        THEN corrects[j] + (IF torch_max(VoteRow(preds)) = label THEN 1 ELSE 0)
        ELSE corrects[j]]

ActiveOutputs(size, skip) == size - skip

\* The validation set of the run (val_loader, shuffle = False).
ValLabels == [i \in 1..NVal |-> ((i - 1) % NumClasses) + 1]

\* evaluate(model, loader, ...) on a model of s branches with all outputs
\* active: the set of running_val_corrects lists (s + 1 entries) the loop can
\* hold after the first i samples, over every top-1 prediction of every branch.
RECURSIVE evaluate_results(_, _)
evaluate_results(s, i) ==
    IF i = 0 THEN {[j \in 1..(s + 1) |-> 0]}
    ELSE {EvalRow(c, ValLabels[i], p) :
             c \in evaluate_results(s, i - 1), p \in [1..ActiveOutputs(s, 0) -> Classes]}

ValOutcomes == [s \in 1..num_branches_trained_network |-> evaluate_results(s, NVal)]

\* ---- main ----
ShouldValidateNoFinal(e, budget) == (e % validation_interval) = 0

ShouldValidate(e, budget) == ((e % validation_interval) = 0) \/ ((e + 1) = budget)

IsBestStrict(acc, best) == acc > best

IsBest(acc, best) == acc >= best

\* Ensemble.save into <fold directory>/Saved Networks/<stage>: the store is the
\* directory of the fold in training; a finished fold's files are never
\* written or read again.
Save(store, snap, stage) == [store EXCEPT ![stage] = snap]

NoFiles == [s \in 1..num_branches_trained_network |-> << >>]

VARIABLES pc, fold, max_training_epoch, net, optimizer, scheduler,
          best_ensemble, best_ensemble_acc, history_val_acc, history_val_state,
          epoch, batch, saved, clock, stage_log, epochs_since_validation

mainvars == << pc, fold, max_training_epoch, net, optimizer, scheduler,
               best_ensemble, best_ensemble_acc, history_val_acc, history_val_state,
               epoch, batch, saved, clock, stage_log, epochs_since_validation >>

size == get_ensemble_size(net)

MainInit ==
    /\ pc = "init_fold"
    /\ fold = 0
    /\ max_training_epoch = FirstBudget
    /\ net = Ensemble(0)
    /\ optimizer = << >>
    /\ scheduler = [last_epoch |-> 0, base_lrs |-> << >>]
    /\ best_ensemble = << >>
    /\ best_ensemble_acc = 0
    /\ history_val_acc = << >>
    /\ history_val_state = << >>
    /\ epoch = 0
    /\ batch = 0
    /\ saved = NoFiles
    /\ clock = 0
    /\ stage_log = << >>
    /\ epochs_since_validation = 0

\* lines 258-285: new Ensemble, first branch, optimizer with two groups.
InitFold ==
    /\ pc = "init_fold"
    /\ fold < NumFolds
    /\ net' = add_branch(Ensemble(clock + 1), clock + 2)
    /\ clock' = clock + 2
    /\ optimizer' = InitOptimizer(net')
    /\ stage_log' = << >>
    /\ saved' = NoFiles
    /\ pc' = "stage_start"
    /\ UNCHANGED << fold, max_training_epoch, scheduler, best_ensemble, best_ensemble_acc,
                    history_val_acc, history_val_state, epoch, batch,
                    epochs_since_validation >>

\* lines 289-311: best network, scheduler and histories of a new stage.
StartStage ==
    /\ pc = "stage_start"
    /\ best_ensemble' = to_state_dict(net)
    /\ best_ensemble_acc' = 0
    /\ scheduler' = StepLR(optimizer)
    /\ optimizer' = ApplyLRs(optimizer, StepLR_lrs(scheduler'))
    /\ history_val_acc' = << >>
    /\ history_val_state' = << >>
    /\ epoch' = 0
    /\ batch' = 0
    /\ stage_log' = Append(stage_log, [size |-> size, budget |-> max_training_epoch])
    /\ pc' = IF 0 < max_training_epoch THEN "epoch_start" ELSE "stage_end"
    /\ epochs_since_validation' = 0
    /\ UNCHANGED << fold, max_training_epoch, net, saved, clock >>

\* lines 311-318: a new train loader and scheduler.step().
StartEpoch ==
    /\ pc = "epoch_start"
    /\ scheduler' = scheduler_step(scheduler)
    /\ optimizer' = ApplyLRs(optimizer, StepLR_lrs(scheduler'))
    /\ batch' = 0
    /\ pc' = "train"
    /\ UNCHANGED << fold, max_training_epoch, net, best_ensemble, best_ensemble_acc,
                    history_val_acc, history_val_state, epoch, saved, clock, stage_log,
                    epochs_since_validation >>

\* lines 320-346: one mini-batch: forward, backward, optimizer.step().
TrainStep ==
    /\ pc = "train"
    /\ batch < NumBatches
    /\ net' = optimizer_step(Forward(net, clock + 1), optimizer, clock + 1)
    /\ clock' = clock + 1
    /\ batch' = batch + 1
    /\ UNCHANGED << pc, fold, max_training_epoch, optimizer, scheduler, best_ensemble,
                    best_ensemble_acc, history_val_acc, history_val_state, epoch, saved,
                    stage_log, epochs_since_validation >>

NextEpochPc == IF epoch + 1 < max_training_epoch THEN "epoch_start" ELSE "stage_end"

\* lines 356-357: the epoch is validated; net.eval().
EnterValidate ==
    /\ pc = "train"
    /\ batch = NumBatches
    /\ ShouldValidate(epoch, max_training_epoch)
    /\ net' = set_mode(net, FALSE)
    /\ pc' = "validate"
    /\ UNCHANGED << fold, max_training_epoch, optimizer, scheduler, best_ensemble,
                    best_ensemble_acc, history_val_acc, history_val_state, epoch, batch,
                    saved, clock, stage_log, epochs_since_validation >>

\* line 356 false: straight on to the next epoch.
SkipValidate ==
    /\ pc = "train"
    /\ batch = NumBatches
    /\ ~ShouldValidate(epoch, max_training_epoch)
    /\ epoch' = epoch + 1
    /\ epochs_since_validation' = epochs_since_validation + 1
    /\ pc' = NextEpochPc
    /\ UNCHANGED << fold, max_training_epoch, net, optimizer, scheduler, best_ensemble,
                    best_ensemble_acc, history_val_acc, history_val_state, batch, saved,
                    clock, stage_log >>

\* lines 359-396: evaluate, histories, best ensemble and its files, net.train().
Validate ==
    /\ pc = "validate"
    /\ \E val_corrects \in ValOutcomes[size] :
         LET evaluated == Forward(net, clock + 1)
             ensemble_acc == val_corrects[size + 1]
             snapshot == to_state_dict(evaluated)
         IN /\ history_val_acc' = Append(history_val_acc, ensemble_acc)
            /\ history_val_state' = Append(history_val_state, snapshot)
            /\ IF IsBest(ensemble_acc, best_ensemble_acc)
               THEN /\ best_ensemble_acc' = ensemble_acc
                    /\ best_ensemble' = snapshot
                    /\ saved' = Save(saved, snapshot, size)
               ELSE UNCHANGED << best_ensemble_acc, best_ensemble, saved >>
            /\ net' = set_mode(evaluated, TRUE)
    /\ clock' = clock + 1
    /\ epoch' = epoch + 1
    /\ epochs_since_validation' = 0
    /\ pc' = NextEpochPc
    /\ UNCHANGED << fold, max_training_epoch, optimizer, scheduler, batch, stage_log >>

\* lines 399-404: another branch is due: shorter budget, reload the best.
GrowReload ==
    /\ pc = "stage_end"
    /\ size < num_branches_trained_network
    /\ max_training_epoch' = LaterBudget
    /\ LET r == reload(net, best_ensemble)
       IN /\ net' = r.net
          /\ pc' = IF r.error THEN "error" ELSE "grow_add"
    /\ UNCHANGED << fold, optimizer, scheduler, best_ensemble, best_ensemble_acc,
                    history_val_acc, history_val_state, epoch, batch, saved, clock,
                    stage_log, epochs_since_validation >>

\* lines 407-410: net.add_branch().
GrowAdd ==
    /\ pc = "grow_add"
    /\ net' = add_branch(net, clock + 1)
    /\ clock' = clock + 1
    /\ pc' = "grow_opt"
    /\ UNCHANGED << fold, max_training_epoch, optimizer, scheduler, best_ensemble,
                    best_ensemble_acc, history_val_acc, history_val_state, epoch, batch,
                    saved, stage_log, epochs_since_validation >>

\* lines 413-416: the new optimizer.
GrowOpt ==
    /\ pc = "grow_opt"
    /\ optimizer' = GrowOptimizer(net)
    /\ pc' = "stage_start"
    /\ UNCHANGED << fold, max_training_epoch, net, scheduler, best_ensemble,
                    best_ensemble_acc, history_val_acc, history_val_state, epoch, batch,
                    saved, clock, stage_log, epochs_since_validation >>

\* lines 419-420 and 258: break, next fold or end of main.
FinishFold ==
    /\ pc = "stage_end"
    /\ ~(size < num_branches_trained_network)
    /\ fold' = fold + 1
    /\ pc' = IF fold + 1 < NumFolds THEN "init_fold" ELSE "done"
    /\ UNCHANGED << max_training_epoch, net, optimizer, scheduler, best_ensemble,
                    best_ensemble_acc, history_val_acc, history_val_state, epoch, batch,
                    saved, clock, stage_log, epochs_since_validation >>

\* ---- evaluate and reload called on their own, on arbitrary arguments ----
\* evaluate is followed statement by statement on batches of one sample.
VARIABLES ev_pc, ev_size, ev_skip, ev_total, ev_n, ev_label, ev_o, ev_pred,
          overall_preds, ev_ensemble_pred, running_val_corrects, ev_ties,
          rl_net, rl_cfg, rl_out

unitvars == << ev_pc, ev_size, ev_skip, ev_total, ev_n, ev_label, ev_o, ev_pred,
               overall_preds, ev_ensemble_pred, running_val_corrects, ev_ties,
               rl_net, rl_cfg, rl_out >>

vars == << mainvars, unitvars >>

MaxVotes(row) == CHOOSE m \in 0..num_branches_trained_network :
                    (\E c \in Classes : row[c] = m) /\ (\A c \in Classes : row[c] <= m)

MultiTie(row) == Cardinality({c \in Classes : row[c] = MaxVotes(row)}) > 1

UnitInit ==
    /\ ev_pc = "idle"
    /\ ev_size = 0
    /\ ev_skip = 0
    /\ ev_total = 0
    /\ ev_n = 0
    /\ ev_label = 1
    /\ ev_o = 0
    /\ ev_pred = 1
    /\ overall_preds = [c \in Classes |-> 0]
    /\ ev_ensemble_pred = 1
    /\ running_val_corrects = << >>
    /\ ev_ties = 0
    /\ rl_net = Ensemble(0)
    /\ rl_cfg = << >>
    /\ rl_out = [net |-> Ensemble(0), error |-> FALSE]

\* lines 145-148: a call of evaluate on a model of s branches, the last skip
\* outputs left out, and a validation set of total samples.
EvalBegin ==
    /\ ev_pc = "idle"
    /\ \E s \in 1..num_branches_trained_network, total \in 0..NVal :
         \E skip \in 0..(s - 1) :
            /\ ev_size' = s
            /\ ev_skip' = skip
            /\ ev_total' = total
            /\ running_val_corrects' = [j \in 1..(s + 1) |-> 0]
    /\ ev_n' = 0
    /\ ev_pc' = "loader"
    /\ UNCHANGED << ev_label, ev_o, ev_pred, overall_preds, ev_ensemble_pred, ev_ties,
                    rl_net, rl_cfg, rl_out >>

\* lines 150-156: the next sample and its label; overall_preds zeroed.
EvalBatch ==
    /\ ev_pc = "loader"
    /\ ev_n < ev_total
    /\ \E label \in Classes : ev_label' = label
    /\ overall_preds' = [c \in Classes |-> 0]
    /\ ev_o' = 0
    /\ ev_pc' = "branches"
    /\ UNCHANGED << ev_size, ev_skip, ev_total, ev_n, ev_pred, ev_ensemble_pred,
                    running_val_corrects, ev_ties, rl_net, rl_cfg, rl_out >>

\* lines 157-166: the next active branch's top-1 class: its correct-count and
\* its vote.
EvalBranch ==
    /\ ev_pc = "branches"
    /\ ev_o < ActiveOutputs(ev_size, ev_skip)
    /\ \E pred \in Classes :
         /\ ev_pred' = pred
         /\ running_val_corrects' =
              [running_val_corrects EXCEPT ![ev_o + 1] = @ + (IF pred = ev_label THEN 1 ELSE 0)]
         /\ overall_preds' = AddVote(overall_preds, pred)
    /\ ev_o' = ev_o + 1
    /\ UNCHANGED << ev_pc, ev_size, ev_skip, ev_total, ev_n, ev_label, ev_ensemble_pred,
                    ev_ties, rl_net, rl_cfg, rl_out >>

\* lines 169-170: the ensemble prediction of the sample and its correct-count.
EvalEnsemble ==
    /\ ev_pc = "branches"
    /\ ev_o = ActiveOutputs(ev_size, ev_skip)
    /\ ev_ensemble_pred' = torch_max(overall_preds)
    /\ running_val_corrects' =
         [running_val_corrects EXCEPT
             ![ev_size + 1] = @ + (IF torch_max(overall_preds) = ev_label THEN 1 ELSE 0)]
    /\ ev_ties' = ev_ties + (IF MultiTie(overall_preds) THEN 1 ELSE 0)
    /\ ev_n' = ev_n + 1
    /\ ev_pc' = "loader"
    /\ UNCHANGED << ev_size, ev_skip, ev_total, ev_label, ev_o, ev_pred, overall_preds,
                    rl_net, rl_cfg, rl_out >>

\* line 176: return running_val_corrects.
EvalReturn ==
    /\ ev_pc = "loader"
    /\ ev_n = ev_total
    /\ ev_pc' = "returned"
    /\ UNCHANGED << ev_size, ev_skip, ev_total, ev_n, ev_label, ev_o, ev_pred, overall_preds,
                    ev_ensemble_pred, running_val_corrects, ev_ties, rl_net, rl_cfg, rl_out >>

TestNet(s) == [training |-> TRUE, base |-> Component(1),
               branches |-> [i \in 1..s |-> Component(1 + i)]]

TestSnapshot(len) == [j \in 1..len |-> [w |-> 100 + j, bn |-> 100 + j]]

\* lines 138-142: a call of reload on a model of s branches with a list of
\* len state_dicts.
CallReload ==
    /\ ev_pc = "idle"
    /\ \E s \in 1..num_branches_trained_network, len \in 0..(num_branches_trained_network + 2) :
         /\ rl_net' = TestNet(s)
         /\ rl_cfg' = TestSnapshot(len)
         /\ rl_out' = reload(TestNet(s), TestSnapshot(len))
    /\ ev_pc' = "reloaded"
    /\ UNCHANGED << ev_size, ev_skip, ev_total, ev_n, ev_label, ev_o, ev_pred, overall_preds,
                    ev_ensemble_pred, running_val_corrects, ev_ties >>

Init == MainInit /\ UnitInit

Next ==
    \/ InitFold /\ UNCHANGED unitvars
    \/ StartStage /\ UNCHANGED unitvars
    \/ StartEpoch /\ UNCHANGED unitvars
    \/ TrainStep /\ UNCHANGED unitvars
    \/ EnterValidate /\ UNCHANGED unitvars
    \/ SkipValidate /\ UNCHANGED unitvars
    \/ Validate /\ UNCHANGED unitvars
    \/ GrowReload /\ UNCHANGED unitvars
    \/ GrowAdd /\ UNCHANGED unitvars
    \/ GrowOpt /\ UNCHANGED unitvars
    \/ FinishFold /\ UNCHANGED unitvars

Spec == Init /\ [][Next]_vars

UnitNext ==
    \/ EvalBegin /\ UNCHANGED mainvars
    \/ EvalBatch /\ UNCHANGED mainvars
    \/ EvalBranch /\ UNCHANGED mainvars
    \/ EvalEnsemble /\ UNCHANGED mainvars
    \/ EvalReturn /\ UNCHANGED mainvars
    \/ CallReload /\ UNCHANGED mainvars

SpecUnit == Init /\ [][UnitNext]_vars

\* ======================= properties =======================
InLoop == pc \in {"epoch_start", "train", "validate"}

LastIndexOfMax(h) ==
    CHOOSE i \in 1..Len(h) : h[i] = SeqMax(h) /\ (\A j \in (i + 1)..Len(h) : h[j] # SeqMax(h))

\* C1 (state part): once a stage has validated, the recorded best accuracy is
\* the maximum of the stage's ensemble accuracies and the held snapshot is the
\* one captured at the most recent validation that reached this maximum.
C1_BestIsLatestMax ==
    Len(history_val_acc) > 0 =>
        /\ best_ensemble_acc = SeqMax(history_val_acc)
        /\ best_ensemble = history_val_state[LastIndexOfMax(history_val_acc)]

\* C1 (step part): a stage begins with best accuracy 0; a validation replaces
\* and persists the best snapshot if and only if its accuracy is >= the best
\* so far.
C1_ValidateStep ==
    /\ pc = "stage_start" => best_ensemble_acc' = 0
    /\ pc = "validate" =>
         LET n == Len(history_val_acc')
             acc == history_val_acc'[n]
         IN /\ n = Len(history_val_acc) + 1
            /\ IF acc >= best_ensemble_acc
               THEN /\ best_ensemble_acc' = acc
                    /\ best_ensemble' = history_val_state'[n]
                    /\ saved'[size] = best_ensemble'
               ELSE UNCHANGED << best_ensemble_acc, best_ensemble, saved >>

\* C1: checkpoint policy of a stage: save on accuracy >= best (ties
\* overwrite), so the best snapshot is that of the latest validation attaining
\* the stage maximum and the best accuracy is that maximum.
C1_CheckpointPolicy == [](C1_BestIsLatestMax) /\ [][C1_ValidateStep]_vars

\* A tie has overwritten an earlier, different snapshot of the same accuracy.
C1_Witness ==
    /\ Len(history_val_acc) >= 2
    /\ history_val_acc[1] = history_val_acc[2]
    /\ history_val_acc[1] = SeqMax(history_val_acc)
    /\ history_val_acc[1] > 0
    /\ Len(history_val_acc) = 2
    /\ history_val_state[1] # history_val_state[2]
    /\ best_ensemble = history_val_state[2]

HasOptimizer == pc \in {"stage_start", "epoch_start", "train", "validate", "stage_end"}

OneGroupPerComponent ==
    /\ Len(optimizer) = size + 1
    /\ \A c \in 0..size : Cardinality({j \in 1..Len(optimizer) : optimizer[j].comp = c}) = 1

\* C2: in stage 1 the extractor group and the first branch's group carry the
\* non-zero base learning rate; from the first GROW on there is one group per
\* component, the newest branch's group is the only one with a non-zero
\* learning rate, also after every step decay.
C2_ParameterGroups ==
    HasOptimizer =>
        /\ OneGroupPerComponent
        /\ size = 1 =>
             /\ optimizer[1].comp = 0 /\ optimizer[2].comp = 1
             /\ optimizer[1].lr > 0 /\ optimizer[2].lr = optimizer[1].lr
             /\ IF pc = "stage_start"
                THEN optimizer[1].lr = BaseLR
                ELSE scheduler.base_lrs = << BaseLR, BaseLR >>
        /\ size >= 2 =>
             /\ \A j \in 1..Len(optimizer) : (optimizer[j].lr # 0) <=> (optimizer[j].comp = size)
             /\ Cardinality({j \in 1..Len(optimizer) : optimizer[j].lr # 0}) = 1
             /\ GroupLR(optimizer, 0) = 0
             /\ \A b \in 1..(size - 1) : GroupLR(optimizer, b) = 0

\* A later stage after a step decay of the newest branch's learning rate.
C2_Witness ==
    /\ pc = "train"
    /\ size >= 2
    /\ scheduler.last_epoch >= StepSize
    /\ GroupLR(optimizer, size) > 0
    /\ GroupLR(optimizer, size) < BaseLR

Stamps(snapshot) == {snapshot[j].w : j \in 1..Len(snapshot)}

C3_Sizes ==
    /\ Len(stage_log) <= num_branches_trained_network
    /\ \A i \in 1..Len(stage_log) : stage_log[i].size = i
    /\ (pc # "init_fold" /\ pc # "done") => size >= 1

C3_Step ==
    /\ pc = "init_fold" => (size' = 1 /\ net'.base.w > clock /\ net'.branches[1].w > clock
                            /\ net'.base.bn = 0 /\ net'.branches[1].bn = 0)
    /\ pc # "init_fold" => size' >= size
    /\ pc = "grow_add" => size' = size + 1
    /\ pc \notin {"init_fold", "grow_add"} => size' = size
    /\ fold' # fold => (size = num_branches_trained_network
                        /\ Len(stage_log) = num_branches_trained_network)

\* C3: a fold starts with a fresh ensemble of size 1, the size never
\* decreases in a fold, GROW adds exactly one branch (the restore none), and a
\* fold ends only at the target size, its stages being sizes 1, 2, ..., target.
C3_EnsembleGrowth == [](C3_Sizes) /\ [][C3_Step]_vars

\* The last fold has finished with every stage run.
C3_Witness ==
    /\ pc = "done"
    /\ size = num_branches_trained_network
    /\ Len(stage_log) = num_branches_trained_network

\* C4: in every fold the first stage has a strictly longer epoch budget than
\* each later stage of the same fold.
C4_FirstStageLonger ==
    \A i \in 2..Len(stage_log) : stage_log[1].budget > stage_log[i].budget

AllTraining == net.base.training /\ \A i \in 1..size : net.branches[i].training

AllInference == ~net.base.training /\ \A i \in 1..size : ~net.branches[i].training

\* C5: while the Evaluator runs the extractor and every branch are in
\* inference mode and the epoch's training steps are all done; while a
\* training step runs every component is in training mode.
C5_ModeSeparation ==
    /\ pc = "validate" => (AllInference /\ batch = NumBatches)
    /\ pc = "train" => AllTraining

\* C9 (state part): fewer than validation_interval epochs in a row end
\* without a validation, and a stage that has ended has validated.
C9_Gaps ==
    /\ epochs_since_validation < validation_interval
    /\ pc \in {"stage_end", "grow_add", "grow_opt"} => Len(history_val_acc) >= 1
    /\ InLoop => Len(history_val_acc) <= epoch + 1

\* C9 (step part): a finished epoch goes to validation exactly when its index
\* is a multiple of the interval or it is the last of the stage; a
\* validation is followed by the next epoch or the end of the stage; the
\* stage ends only out of the validation of its final epoch.
C9_Step ==
    /\ (pc = "train" /\ batch = NumBatches) =>
          ((pc' = "validate") <=>
             ((epoch % validation_interval = 0) \/ (epoch + 1 = max_training_epoch)))
    /\ pc = "validate" => (pc' # "validate" /\ epoch' = epoch + 1
                           /\ Len(history_val_acc') = Len(history_val_acc) + 1)
    /\ (pc' = "stage_end" /\ pc # "stage_end") =>
          (pc = "validate" /\ epoch + 1 = max_training_epoch)

\* C9: validation schedule of a stage: after an epoch at a multiple of the
\* interval and after the final epoch, once per epoch; so the final epoch is
\* validated, gaps stay below the interval and every stage validates.
C9_ValidationSchedule == [](C9_Gaps) /\ [][C9_Step]_vars

\* The final epoch of a stage is validated though it is no multiple.
C9_Witness ==
    /\ pc = "validate"
    /\ epoch + 1 = max_training_epoch
    /\ epoch % validation_interval # 0

C10_Step ==
    /\ (pc = "stage_end" /\ fold' = fold) =>
          /\ pc' = "grow_add"
          /\ Len(best_ensemble) = size + 1
          /\ \E i \in 1..Len(history_val_state) : best_ensemble = history_val_state[i]
          /\ best_ensemble = saved[size]
          /\ size' = size
          /\ to_state_dict(net') = best_ensemble
          /\ UNCHANGED << optimizer, best_ensemble >>
    /\ pc = "grow_add" =>
          /\ pc' = "grow_opt"
          /\ size' = size + 1
          /\ SubSeq(to_state_dict(net'), 1, size + 1) = best_ensemble
          /\ net'.branches[size'].bn = 0
          /\ net'.branches[size'].w \notin Stamps(best_ensemble)
          /\ UNCHANGED << optimizer, best_ensemble >>
    /\ pc = "grow_opt" =>
          /\ pc' = "stage_start"
          /\ net' = net
          /\ optimizer' # optimizer

\* C10: GROW restores, then appends the branch, then rebuilds the optimizer;
\* the restored snapshot has size + 1 entries, was captured at a validation of
\* the completed stage, equals what was last persisted under the stage's id,
\* overwrites extractor and existing branches and leaves the new branch alone.
C10_GrowOrder == [][C10_Step]_vars

\* A restore that rolled the ensemble back to an earlier validation.
C10_Witness ==
    /\ pc = "grow_opt"
    /\ Len(history_val_state) >= 2
    /\ best_ensemble # history_val_state[Len(history_val_state)]
    /\ SubSeq(to_state_dict(net), 1, size) = best_ensemble
    /\ net.branches[size].bn = 0

MaxBranchCorrect ==
    CHOOSE m \in 0..NVal :
        /\ \E b \in 1..ev_size : running_val_corrects[b] = m
        /\ \A b \in 1..ev_size : running_val_corrects[b] <= m

SampleDone == ev_pc \in {"loader", "returned"}

\* C7: the ensemble correct-count is at least the largest single-branch
\* correct-count minus the number of samples whose top vote count is shared
\* by several classes.
C7_SanityBound ==
    SampleDone => running_val_corrects[ev_size + 1] >= MaxBranchCorrect - ev_ties

\* C7 as amended: the bound for at most two active branches.
C7_SanityBoundUpToTwo ==
    (SampleDone /\ ActiveOutputs(ev_size, ev_skip) <= 2) =>
        running_val_corrects[ev_size + 1] >= MaxBranchCorrect - ev_ties

\* Two voters, a tie has cost the ensemble a sample its best branch got.
C7_Witness ==
    /\ ev_pc = "returned"
    /\ ActiveOutputs(ev_size, ev_skip) = 2
    /\ ev_ties > 0
    /\ running_val_corrects[ev_size + 1] < MaxBranchCorrect
    /\ running_val_corrects[ev_size + 1] = MaxBranchCorrect - ev_ties

RowSum(row) == LET RECURSIVE Sum(_)
                   Sum(c) == IF c = 0 THEN 0 ELSE row[c] + Sum(c - 1)
               IN Sum(NumClasses)

\* C8 (state part): after a sample, its vote row sums to the number of
\* active branches and the ensemble prediction is the lowest-indexed class
\* with the most votes, so a unanimous class wins; a single voter's
\* correct-count is the ensemble's.
C8_VoteResult ==
    (SampleDone /\ ev_n > 0) =>
        LET active == ActiveOutputs(ev_size, ev_skip)
        IN /\ RowSum(overall_preds) = active
           /\ \A c \in Classes : overall_preds[c] <= overall_preds[ev_ensemble_pred]
           /\ \A c \in Classes :
                 overall_preds[c] = overall_preds[ev_ensemble_pred] => ev_ensemble_pred <= c
           /\ active = 1 => running_val_corrects[ev_size + 1] = running_val_corrects[1]
           /\ \A c \in Classes : overall_preds[c] = active => ev_ensemble_pred = c

\* C8 (step part): a branch's turn adds one vote to its top-1 class and none
\* elsewhere.
C8_VoteStep ==
    (ev_pc = "branches" /\ ev_o' = ev_o + 1) =>
        \A c \in Classes :
            overall_preds'[c] = overall_preds[c] + (IF c = ev_pred' THEN 1 ELSE 0)

\* C8: every active branch adds exactly one vote to the class of its top-1
\* prediction; the ensemble prediction is the lowest-indexed class with the
\* most votes; one voter alone decides, unanimous branches decide.
C8_EnsembleVote == [](C8_VoteResult) /\ [][C8_VoteStep]_vars

\* Classes 1 and 2 tie at the top of the vote row and class 1 is predicted.
C8_Witness ==
    /\ SampleDone
    /\ ev_n > 0
    /\ ActiveOutputs(ev_size, ev_skip) >= 2
    /\ overall_preds[1] = overall_preds[2]
    /\ overall_preds[1] = MaxVotes(overall_preds)
    /\ ev_pred = 2
    /\ ev_ensemble_pred = 1

Reloaded == ev_pc = "reloaded"

\* C6: reload fails whenever the snapshot's length differs from ensemble
\* size + 1, with fewer entries and with more.
C6_FailsOnAnyMismatch ==
    Reloaded => (rl_out.error <=> (Len(rl_cfg) # get_ensemble_size(rl_net) + 1))

\* C6 as amended: reload fails exactly on a snapshot of fewer than size + 1
\* entries; on size + 1 or more it succeeds, loading the extractor and every
\* branch from the first size + 1 entries.
C6_FailsOnShortSnapshot ==
    Reloaded =>
        /\ rl_out.error <=> (Len(rl_cfg) < get_ensemble_size(rl_net) + 1)
        /\ ~rl_out.error =>
              to_state_dict(rl_out.net) = SubSeq(rl_cfg, 1, get_ensemble_size(rl_net) + 1)

\* A longer snapshot was accepted.
C6_Witness ==
    /\ Reloaded
    /\ Len(rl_cfg) > get_ensemble_size(rl_net) + 1
    /\ ~rl_out.error
    /\ to_state_dict(rl_out.net) = SubSeq(rl_cfg, 1, get_ensemble_size(rl_net) + 1)

====
